---- MODULE Spec2Model ----
(***************************************************************************)
(* The item allocator of main.py: a Redis list "items" (the rotation       *)
(* pool), a Redis hash "item_usage" (the usage ledger), the file           *)
(* item_usage.txt (the durable snapshot) and links.txt (the canonical      *)
(* list).  Each allocator process serves get_item; processes share the     *)
(* store and interleave at the granularity of one store command.  Inside   *)
(* one process the handler body holds no await, so one process runs one    *)
(* handler at a time: a member of Procs is one allocator process.          *)
(* The bootstrap (initialize_items at import) is one step that runs before *)
(* any request is served.  Spec interleaves the processes; SeqSpec runs    *)
(* non-overlapping requests; FailSpec adds failing store commands and file *)
(* writes to SeqSpec; FairSpec is SeqSpec with every started handler run   *)
(* to its end.                                                             *)
(***************************************************************************)
EXTENDS Integers, Sequences, FiniteSets, TLC

\* ---------------------------------------------------------------- bounds
NumProcs == 2
MaxItems == 2
MaxCalls == 5

\* ------------------------------------------------------ program constants
MAX_CLIENTS_PER_ITEM == 2

Procs == 1..NumProcs
ItemNames == <<"A", "B", "C", "D">>
ItemsU == {ItemNames[i] : i \in 1..MaxItems}
\* redis lindex on an empty list returns None
NoItem == ""

VARIABLES
    links,        \* links.txt: [exists, lines]
    limit,        \* MAX_CLIENTS_PER_ITEM as configured: each setting from 1 to the shipped 2
    snapshot,     \* item_usage.txt: [kind, data]
    items,        \* Redis list "items"
    item_usage,   \* Redis hash "item_usage"
    phase,        \* "down" | "serving"
    pc,           \* per process: position inside get_item
    item,         \* per process: local item
    usage,        \* per process: local usage
    usage_data,   \* per process: local usage_data of save_usage_data
    idx,          \* per process: position of the for loop of reset_item_usage
    held,         \* the asyncio.Lock objects currently held
    \* observations of the run, read by the properties only
    outcome,      \* per process: what the current / last call came to
    ncalls,       \* calls begun since the last startup
    bootSnap,     \* what the startup of the running processes found as snapshot file
    atStart,      \* pool and ledger when the running call began, if it runs alone
    atStop        \* the ledger and the number of calls when the processes were stopped

vars == <<links, limit, snapshot, items, item_usage, phase, pc, item, usage,
          usage_data, idx, held, outcome, ncalls, bootSnap, atStart, atStop>>

\* ------------------------------------------------- conversions (pure)
\* str(n) as Redis returns a hash value: the decimal digits of n
RECURSIVE ToStr(_)
ToStr(n) == IF n < 10 THEN <<n>> ELSE Append(ToStr(n \div 10), n % 10)

\* int(s) of a digit string
RECURSIVE IntOf(_)
IntOf(s) == IF Len(s) = 0 THEN 0
            ELSE 10 * IntOf(SubSeq(s, 1, Len(s) - 1)) + s[Len(s)]

\* ------------------------------------------------- the store's commands
\* int(redis_client.hget("item_usage", item) or 0)
Count(h, i) == IF i \in DOMAIN h THEN h[i] ELSE 0

\* redis_client.hset("item_usage", item, v)
HSet(h, i, v) == [j \in (DOMAIN h) \cup {i} |-> IF j = i THEN v ELSE h[j]]

\* an increment applied twice over
HIncrByTwo(h, i) == HSet(h, i, Count(h, i) + 2)

\* redis_client.hincrby("item_usage", item, 1)
HIncrBy(h, i) == HSet(h, i, Count(h, i) + 1)

\* redis_client.hgetall("item_usage"): every value as a string
HGetAll(h) == [i \in DOMAIN h |-> ToStr(h[i])]

\* redis_client.lindex("items", 0)
LIndex0(l) == IF Len(l) = 0 THEN NoItem ELSE Head(l)

\* redis_client.lpop("items"): nothing to do on an empty list
LPopList(l) == IF Len(l) = 0 THEN l ELSE Tail(l)

\* redis_client.rpush("items", *items): appends to what the list holds
RPush(l, vals) == l \o vals

EmptyHash == [i \in {} |-> 0]

\* ------------------------------------------------- files
\* load_usage_data(): the saved counts; {} when the file is absent or is not
\* JSON (json.JSONDecodeError is caught); a file that cannot be decoded as
\* text raises UnicodeDecodeError, which load_usage_data lets through
LoadUsageData(snap) ==
    [raised |-> snap.kind = "undecodable",
     data |-> IF snap.kind = "json" THEN snap.data ELSE EmptyHash]

\* the limit test written with <= : one allocation too many per item
UnderLimitInclusive(u, L) == u <= L

\* usage < MAX_CLIENTS_PER_ITEM
UnderLimit(u, L) == u < L

\* the seeding loop without the saved counts: every item starts at 0
RECURSIVE SeedUsageIgnoringSaved(_, _, _)
SeedUsageIgnoringSaved(h, lines, saved) ==
    IF Len(lines) = 0 THEN h
    ELSE SeedUsageIgnoringSaved(HSet(h, Head(lines), 0), Tail(lines), saved)

\* for item in items: hset(item, int(saved_usage.get(item, 0)))
RECURSIVE SeedUsage(_, _, _)
SeedUsage(h, lines, saved) ==
    IF Len(lines) = 0 THEN h
    ELSE LET i == Head(lines)
             c == IF i \in DOMAIN saved THEN IntOf(saved[i]) ELSE 0
         IN SeedUsage(HSet(h, i, c), Tail(lines), saved)

\* initialize_items reading the snapshot before the rpush, a file that does
\* not load ending the seeding there
InitializeItemsLoadFirst(force_reset, l, h, lk, snap) ==
    LET l1 == IF force_reset THEN <<>> ELSE l
        h1 == IF force_reset THEN EmptyHash ELSE h
        saved == LoadUsageData(snap)
    IN IF Len(l1) > 0 THEN [pool |-> l1, ledger |-> h1]
       ELSE IF ~lk.exists THEN [pool |-> l1, ledger |-> h1]
       ELSE IF Len(lk.lines) = 0 THEN [pool |-> l1, ledger |-> h1]
       ELSE IF snap.kind \in {"corrupt", "undecodable"}
            THEN [pool |-> l1, ledger |-> h1]
       ELSE [pool |-> RPush(l1, lk.lines),
             ledger |-> SeedUsage(h1, lk.lines, saved.data)]

\* initialize_items(force_reset): the pool and the ledger it leaves.  The
\* FileNotFoundError of links.txt and the ValueError of an empty list or of a
\* snapshot that does not decode are caught and end the seeding where it is
InitializeItems(force_reset, l, h, lk, snap) ==
    LET l1 == IF force_reset THEN <<>> ELSE l
        h1 == IF force_reset THEN EmptyHash ELSE h
        saved == LoadUsageData(snap)
    IN IF Len(l1) > 0 THEN [pool |-> l1, ledger |-> h1]
       ELSE IF ~lk.exists THEN [pool |-> l1, ledger |-> h1]
       ELSE IF Len(lk.lines) = 0 THEN [pool |-> l1, ledger |-> h1]
       ELSE IF saved.raised THEN [pool |-> RPush(l1, lk.lines), ledger |-> h1]
       ELSE [pool |-> RPush(l1, lk.lines),
             ledger |-> SeedUsage(h1, lk.lines, saved.data)]

\* ------------------------------------------------- initial states
\* item lists up to renaming of the items: the first new item of a list is
\* always the next unused name
RECURSIVE Canonical(_, _)
Canonical(s, used) ==
    IF Len(s) = 0 THEN TRUE
    ELSE /\ \E k \in 1..MaxItems :
              /\ Head(s) = ItemNames[k]
              /\ k <= used + 1
              /\ Canonical(Tail(s), IF k = used + 1 THEN used + 1 ELSE used)

ItemLists == UNION {[1..n -> ItemsU] : n \in 0..MaxItems}

LinksFiles ==
    {[exists |-> FALSE, lines |-> <<>>]}
    \cup {[exists |-> TRUE, lines |-> s] : s \in {t \in ItemLists : Canonical(t, 0)}}

SnapFiles ==
    {[kind |-> k, data |-> EmptyHash] : k \in {"absent", "corrupt", "undecodable"}}
    \cup {[kind |-> "json", data |-> d] :
            d \in UNION {[S -> {ToStr(n) : n \in 0..MAX_CLIENTS_PER_ITEM}] :
                            S \in SUBSET ItemsU}}

NoOutcome == [status |-> "none", item |-> NoItem, usage |-> 0, cause |-> "",
              reset |-> FALSE]
NoStart == [owner |-> 0, pool |-> <<>>, ledger |-> EmptyHash]
NoStop == [valid |-> FALSE, ledger |-> EmptyHash, calls |-> 0]

Init ==
    /\ links \in LinksFiles
    /\ limit \in 1..MAX_CLIENTS_PER_ITEM
    /\ snapshot \in SnapFiles
    /\ items = <<>>
    /\ item_usage = EmptyHash
    /\ phase = "down"
    /\ pc = [p \in Procs |-> "idle"]
    /\ item = [p \in Procs |-> NoItem]
    /\ usage = [p \in Procs |-> 0]
    /\ usage_data = [p \in Procs |-> EmptyHash]
    /\ idx = [p \in Procs |-> 0]
    /\ held = {}
    /\ outcome = [p \in Procs |-> NoOutcome]
    /\ ncalls = 0
    /\ bootSnap = "none"
    /\ atStart = NoStart
    /\ atStop = NoStop

InCall(p) == pc[p] \notin {"idle", "done", "failed"}

\* ------------------------------------------------- startup and shutdown
\* module import: initialize_items(force_reset=True), then uvicorn serves
Startup ==
    /\ phase = "down"
    /\ LET r == InitializeItems(TRUE, items, item_usage, links, snapshot)
       IN /\ items' = r.pool
          /\ item_usage' = r.ledger
    /\ phase' = "serving"
    /\ bootSnap' = snapshot.kind
    /\ ncalls' = 0
    /\ UNCHANGED <<links, limit, snapshot, pc, item, usage, usage_data, idx, held,
                   outcome, atStart, atStop>>

\* the processes are stopped between requests; the store and the files stay
Stop ==
    /\ phase = "serving"
    /\ \A p \in Procs : ~InCall(p)
    /\ phase' = "down"
    /\ pc' = [p \in Procs |-> "idle"]
    /\ outcome' = [p \in Procs |-> NoOutcome]
    /\ atStart' = NoStart
    /\ atStop' = [valid |-> TRUE, ledger |-> item_usage, calls |-> ncalls]
    /\ bootSnap' = "none"
    /\ UNCHANGED <<links, limit, snapshot, items, item_usage, item, usage,
                   usage_data, idx, held, ncalls>>

\* ------------------------------------------------- get_item
\* asyncio.Lock(): the lock object an invocation by process p enters; the
\* expression is evaluated by every invocation, which so gets a lock of its own
NewLock(p) == p

Others(p) == Procs \ {p}

\* a request arrives; async with asyncio.Lock(): the new lock is acquired
Begin(p) ==
    /\ phase = "serving"
    /\ ~InCall(p)
    /\ ncalls < MaxCalls
    /\ NewLock(p) \notin held
    /\ held' = held \cup {NewLock(p)}
    /\ pc' = [pc EXCEPT ![p] = "peek"]
    /\ ncalls' = ncalls + 1
    /\ outcome' = [outcome EXCEPT ![p] = [NoOutcome EXCEPT !.status = "running"]]
    /\ atStart' = IF \A q \in Others(p) : ~InCall(q)
                  THEN [owner |-> p, pool |-> items, ledger |-> item_usage]
                  ELSE NoStart
    /\ atStop' = NoStop
    /\ UNCHANGED <<links, limit, snapshot, items, item_usage, phase, item, usage,
                   usage_data, idx, bootSnap>>

\* item = redis_client.lindex("items", 0); if item: ... else: reset_item_usage()
Peek(p) ==
    /\ pc[p] = "peek"
    /\ item' = [item EXCEPT ![p] = LIndex0(items)]
    /\ pc' = [pc EXCEPT ![p] = IF LIndex0(items) # NoItem THEN "hget" ELSE "reset_delete"]
    /\ UNCHANGED <<links, limit, snapshot, items, item_usage, phase, usage,
                   usage_data, idx, held, outcome, ncalls, bootSnap, atStart, atStop>>

\* usage = int(redis_client.hget("item_usage", item) or 0); the limit test
HGet(p) ==
    /\ pc[p] = "hget"
    /\ usage' = [usage EXCEPT ![p] = Count(item_usage, item[p])]
    /\ pc' = [pc EXCEPT ![p] = IF UnderLimit(Count(item_usage, item[p]), limit)
                               THEN "hincrby" ELSE "lpop"]
    /\ UNCHANGED <<links, limit, snapshot, items, item_usage, phase, item,
                   usage_data, idx, held, outcome, ncalls, bootSnap, atStart, atStop>>

\* redis_client.hincrby("item_usage", item, 1)
HIncr(p) ==
    /\ pc[p] = "hincrby"
    /\ item_usage' = HIncrBy(item_usage, item[p])
    /\ pc' = [pc EXCEPT ![p] = "save_hgetall"]
    /\ UNCHANGED <<links, limit, snapshot, items, phase, item, usage,
                   usage_data, idx, held, outcome, ncalls, bootSnap, atStart, atStop>>

\* save_usage_data(): usage_data = redis_client.hgetall("item_usage")
SaveRead(p) ==
    /\ pc[p] = "save_hgetall"
    /\ usage_data' = [usage_data EXCEPT ![p] = HGetAll(item_usage)]
    /\ pc' = [pc EXCEPT ![p] = "save_write"]
    /\ UNCHANGED <<links, limit, snapshot, items, item_usage, phase, item, usage,
                   idx, held, outcome, ncalls, bootSnap, atStart, atStop>>

\* what get_item returns: the item and usage + 1 of the usage it read
Returned(it, u) == [item |-> it, usage |-> u + 1]

\* json.dump(usage_data, file); return {"assigned_item": item, "current_usage": usage + 1}
SaveWrite(p) ==
    /\ pc[p] = "save_write"
    /\ snapshot' = [kind |-> "json", data |-> usage_data[p]]
    /\ pc' = [pc EXCEPT ![p] = "done"]
    /\ outcome' = [outcome EXCEPT ![p] = [@ EXCEPT !.status = "ok",
                                            !.item = Returned(item[p], usage[p]).item,
                                            !.usage = Returned(item[p], usage[p]).usage]]
    /\ held' = held \ {NewLock(p)}
    /\ item' = [item EXCEPT ![p] = NoItem]
    /\ usage' = [usage EXCEPT ![p] = 0]
    /\ usage_data' = [usage_data EXCEPT ![p] = EmptyHash]
    /\ UNCHANGED <<links, limit, items, item_usage, phase, idx, ncalls, bootSnap,
                   atStart, atStop>>

\* redis_client.lpop("items"), then the next turn of while True
LPop(p) ==
    /\ pc[p] = "lpop"
    /\ items' = LPopList(items)
    /\ pc' = [pc EXCEPT ![p] = "peek"]
    /\ item' = [item EXCEPT ![p] = NoItem]
    /\ usage' = [usage EXCEPT ![p] = 0]
    /\ UNCHANGED <<links, limit, snapshot, item_usage, phase, usage_data, idx,
                   held, outcome, ncalls, bootSnap, atStart, atStop>>

\* reset_item_usage(): redis_client.delete("items"), then links.txt is opened;
\* FileNotFoundError is caught and the function returns
ResetDelete(p) ==
    /\ pc[p] = "reset_delete"
    /\ items' = <<>>
    /\ pc' = [pc EXCEPT ![p] = IF links.exists THEN "reset_rpush" ELSE "peek"]
    /\ outcome' = [outcome EXCEPT ![p] = [@ EXCEPT !.reset = TRUE]]
    /\ UNCHANGED <<links, limit, snapshot, item_usage, phase, item, usage,
                   usage_data, idx, held, ncalls, bootSnap, atStart, atStop>>

\* redis_client.rpush("items", *items); with no value the command is refused
\* by the server and the error leaves get_item
ResetRPush(p) ==
    /\ pc[p] = "reset_rpush"
    /\ IF Len(links.lines) = 0
       THEN /\ pc' = [pc EXCEPT ![p] = "failed"]
            /\ outcome' = [outcome EXCEPT ![p] = [@ EXCEPT !.status = "error",
                                                           !.cause = "command"]]
            /\ held' = held \ {NewLock(p)}
            /\ UNCHANGED <<items, idx>>
       ELSE /\ items' = RPush(items, links.lines)
            /\ pc' = [pc EXCEPT ![p] = "reset_hset"]
            /\ idx' = [idx EXCEPT ![p] = 1]
            /\ UNCHANGED <<outcome, held>>
    /\ UNCHANGED <<links, limit, snapshot, item_usage, phase, item, usage,
                   usage_data, ncalls, bootSnap, atStart, atStop>>

\* the zeroing loop stopping one item short of the end of the list
ResetHSetShort(p) ==
    /\ pc[p] = "reset_hset"
    /\ item_usage' = HSet(item_usage, links.lines[idx[p]], 0)
    /\ IF idx[p] < Len(links.lines) - 1
       THEN /\ idx' = [idx EXCEPT ![p] = idx[p] + 1]
            /\ pc' = pc
       ELSE /\ idx' = [idx EXCEPT ![p] = 0]
            /\ pc' = [pc EXCEPT ![p] = "peek"]
    /\ UNCHANGED <<links, limit, snapshot, items, phase, item, usage,
                   usage_data, held, outcome, ncalls, bootSnap, atStart, atStop>>

\* for item in items: redis_client.hset("item_usage", item, 0)
ResetHSet(p) ==
    /\ pc[p] = "reset_hset"
    /\ item_usage' = HSet(item_usage, links.lines[idx[p]], 0)
    /\ IF idx[p] < Len(links.lines)
       THEN /\ idx' = [idx EXCEPT ![p] = idx[p] + 1]
            /\ pc' = pc
       ELSE /\ idx' = [idx EXCEPT ![p] = 0]
            /\ pc' = [pc EXCEPT ![p] = "peek"]
    /\ UNCHANGED <<links, limit, snapshot, items, phase, item, usage,
                   usage_data, held, outcome, ncalls, bootSnap, atStart, atStop>>

\* the positions at which the next step is a command sent to the store
StoreOps == {"peek", "hget", "hincrby", "save_hgetall", "lpop", "reset_delete",
             "reset_rpush", "reset_hset"}

\* a store command raises (timeout, connection loss): nothing in get_item
\* catches it, the lock is released and the request fails
StoreFail(p) ==
    /\ pc[p] \in StoreOps
    /\ pc' = [pc EXCEPT ![p] = "failed"]
    /\ outcome' = [outcome EXCEPT ![p] =
                     [@ EXCEPT !.status = "error",
                               !.cause = IF pc[p] = "save_hgetall" THEN "snapshot"
                                         ELSE "store"]]
    /\ held' = held \ {NewLock(p)}
    /\ item' = [item EXCEPT ![p] = NoItem]
    /\ usage' = [usage EXCEPT ![p] = 0]
    /\ idx' = [idx EXCEPT ![p] = 0]
    /\ UNCHANGED <<links, limit, snapshot, items, item_usage, phase, usage_data,
                   ncalls, bootSnap, atStart, atStop>>

\* open(USAGE_FILE, "w") or json.dump raises: the file is as it was, or it is
\* left truncated; nothing in get_item catches the error
WriteFail(p) ==
    /\ pc[p] = "save_write"
    /\ \E k \in {snapshot.kind, "corrupt"} :
          snapshot' = IF k = "corrupt" THEN [kind |-> "corrupt", data |-> EmptyHash]
                      ELSE snapshot
    /\ pc' = [pc EXCEPT ![p] = "failed"]
    /\ outcome' = [outcome EXCEPT ![p] = [@ EXCEPT !.status = "error",
                                                   !.cause = "snapshot"]]
    /\ held' = held \ {NewLock(p)}
    /\ item' = [item EXCEPT ![p] = NoItem]
    /\ usage' = [usage EXCEPT ![p] = 0]
    /\ usage_data' = [usage_data EXCEPT ![p] = EmptyHash]
    /\ UNCHANGED <<links, limit, items, item_usage, phase, idx, ncalls, bootSnap,
                   atStart, atStop>>

\* ------------------------------------------------- specifications
\* one step of get_item as the code runs it when every command succeeds
Step(p) ==
    \/ Peek(p)
    \/ HGet(p)
    \/ HIncr(p)
    \/ SaveRead(p)
    \/ SaveWrite(p)
    \/ LPop(p)
    \/ ResetDelete(p)
    \/ ResetRPush(p)
    \/ ResetHSet(p)

\* allocator processes sharing the store, their commands interleaved
Next ==
    \/ Startup
    \/ Stop
    \/ \E p \in Procs : Begin(p)
    \/ \E p \in Procs : Step(p)

Spec == Init /\ [][Next]_vars

\* non-overlapping requests, no failing command
SeqBegin(p) == (\A q \in Others(p) : ~InCall(q)) /\ Begin(p)

SeqNext ==
    \/ Startup
    \/ Stop
    \/ \E p \in Procs : SeqBegin(p)
    \/ \E p \in Procs : Step(p)

SeqSpec == Init /\ [][SeqNext]_vars

\* non-overlapping requests whose store commands and file writes may fail
FailNext ==
    \/ SeqNext
    \/ \E p \in Procs : StoreFail(p)
    \/ \E p \in Procs : WriteFail(p)

FailSpec == Init /\ [][FailNext]_vars

\* the event loop runs a handler it started to its end
FairSpec == SeqSpec /\ \A p \in Procs : WF_vars(Step(p))

\* ------------------------------------------------- properties
Range(s) == {s[i] : i \in 1..Len(s)}
Distinct(s) == \A i, j \in 1..Len(s) : i # j => s[i] # s[j]
LinksOK == links.exists /\ Len(links.lines) > 0
AllIdle == \A p \in Procs : pc[p] = "idle"
\* the call of p is the last one begun, it ran alone and it is over
LastCallOf(p) == atStart.owner = p /\ ~InCall(p)

\* C1: after a startup that found no snapshot, with n >= 1 distinct items and
\* non-overlapping calls, the k-th call succeeds and returns item
\* ((k-1) div L) mod n of the list with usage ((k-1) mod L) + 1.
C1_SaturateThenAdvance ==
    \A p \in Procs :
        (/\ bootSnap = "absent"
         /\ LinksOK
         /\ Distinct(links.lines)
         /\ LastCallOf(p))
        => /\ pc[p] = "done"
           /\ outcome[p].item =
                links.lines[(((ncalls - 1) \div limit) % Len(links.lines)) + 1]
           /\ outcome[p].usage = ((ncalls - 1) % limit) + 1

\* the fifth call on [A, B] with limit 2 is back at (A, 1)
C1_Witness ==
    \E p \in Procs :
        /\ bootSnap = "absent"
        /\ links.lines = <<"A", "B">>
        /\ limit = 2
        /\ LastCallOf(p)
        /\ pc[p] = "done"
        /\ ncalls = 5
        /\ outcome[p].item = "A"
        /\ outcome[p].usage = 1

\* C2: after a startup that seeded every count with 0, no ledger count ever
\* exceeds the usage limit, whatever the interleaving of the processes.
C2_NoOverAllocation ==
    bootSnap = "absent" => \A i \in ItemsU : Count(item_usage, i) <= limit

\* the positions after the first lindex and before the return
AfterPeek == {"hget", "hincrby", "save_hgetall", "save_write", "lpop",
              "reset_delete", "reset_rpush", "reset_hset"}

\* C3: with a canonical list to serve from, no two invocations are at once
\* between their first head peek and their return.
C3_CriticalSection ==
    LinksOK =>
        \A p, q \in Procs : (p # q) => ~(pc[p] \in AfterPeek /\ pc[q] \in AfterPeek)

\* C4: right after a non-overlapping call that found the pool empty returns,
\* the pool is the whole canonical list, the call returned the first item
\* with usage 1, that item's count is 1 and every other item's count is 0.
C4_AutoReset ==
    \A p \in Procs :
        (pc[p] = "done" /\ LastCallOf(p) /\ outcome[p].reset)
        => /\ items = links.lines
           /\ outcome[p].item = links.lines[1]
           /\ outcome[p].usage = 1
           /\ Count(item_usage, outcome[p].item) = 1
           /\ \A i \in Range(links.lines) \ {outcome[p].item} :
                 Count(item_usage, i) = 0

\* a call on a two-item list went through a full reset and returned
C4_Witness ==
    \E p \in Procs :
        /\ pc[p] = "done"
        /\ LastCallOf(p)
        /\ outcome[p].reset
        /\ links.lines = <<"A", "B">>
        /\ ncalls >= 2

\* C5: every invocation comes to an end: it returns an item when the
\* canonical list is available and non-empty, and fails when it is not.
C5_NeverHangs ==
    \A p \in Procs :
        InCall(p) ~> (IF LinksOK THEN pc[p] = "done" ELSE pc[p] = "failed")

\* C6: after a shutdown that followed any number of successful
\* non-overlapping calls, the next startup gives every canonical item the
\* count the ledger held at shutdown.
C6_PersistenceRoundTrip ==
    (phase = "serving" /\ atStop.valid)
    => \A i \in Range(links.lines) :
          Count(item_usage, i) = Count(atStop.ledger, i)

\* restarted after three calls on [A, B] with limit 2: A is at 2 and B at 1
C6_Witness ==
    /\ phase = "serving"
    /\ atStop.valid
    /\ atStop.calls = 3
    /\ bootSnap = "json"
    /\ links.lines = <<"A", "B">>
    /\ limit = 2
    /\ Count(item_usage, "A") = 2
    /\ Count(item_usage, "B") = 1

\* C7: a call in which writing the snapshot failed (the hgetall for it or
\* the file write) does not end as a failed request.
C7_SnapshotFailureIsolated ==
    \A p \in Procs : outcome[p].cause = "snapshot" => pc[p] # "failed"

\* C8: a call that ran alone and ended in a store failure leaves the pool
\* and the ledger as they were when it began.
C8_AllOrNothing ==
    \A p \in Procs :
        (pc[p] = "failed" /\ outcome[p].cause = "store" /\ atStart.owner = p)
        => (items = atStart.pool /\ item_usage = atStart.ledger)

\* C9: the process serves only when links.txt was there and held an item.
C9_ConfigErrorFatal == phase = "serving" => LinksOK

\* C10: a startup that found a snapshot it cannot parse ends serving, with
\* the pool holding the canonical list and every item's count at 0.
C10_MalformedSnapshotRecovery ==
    bootSnap \in {"corrupt", "undecodable"}
    => /\ phase = "serving"
       /\ (AllIdle /\ LinksOK)
          => /\ items = links.lines
             /\ \A i \in Range(links.lines) : Count(item_usage, i) = 0

\* just started on a two-item list with a snapshot that is not JSON
C10_Witness ==
    /\ bootSnap = "corrupt"
    /\ phase = "serving"
    /\ AllIdle
    /\ links.lines = <<"A", "B">>
    /\ items = <<"A", "B">>

\* C11: the current_usage an invocation returns is the ledger count of its
\* item right after that invocation's own hincrby, whatever the interleaving.
C11_ReturnedIsPostIncrement ==
    [][\A p \in Procs :
          (bootSnap = "absent" /\ HIncr(p))
          => Count(item_usage', item[p]) = Returned(item[p], usage[p]).usage]_vars

\* C12: whatever the interleaving, an lpop that removes an item removes the
\* item whose count the invocation read, and that count is at the limit.
C12_EvictionOnlyAtLimit ==
    [][\A p \in Procs :
          (bootSnap = "absent" /\ LPop(p) /\ Len(items) > 0)
          => (Head(items) = item[p] /\ Count(item_usage, Head(items)) >= limit)]_vars

\* a call of p that ran alone, began with a head item under the limit and
\* has returned: the pool is as it was, with the returned item at its head,
\* and the ledger differs by +1 on that item only
PlainCallFrame(p) ==
    (/\ pc[p] = "done"
     /\ atStart.owner = p
     /\ Len(atStart.pool) > 0
     /\ Count(atStart.ledger, Head(atStart.pool)) < limit)
    => /\ items = atStart.pool
       /\ outcome[p].item = Head(atStart.pool)
       /\ DOMAIN item_usage = (DOMAIN atStart.ledger) \cup {outcome[p].item}
       /\ \A i \in DOMAIN item_usage :
             item_usage[i] = Count(atStart.ledger, i)
                             + (IF i = outcome[p].item THEN 1 ELSE 0)

\* a step that changes the count of item i is the hincrby of an invocation
\* about to return i (+1), a zeroing hset of a full reset, or the startup seed
LedgerStep(i) ==
    Count(item_usage', i) # Count(item_usage, i)
    => \/ \E p \in Procs : /\ HIncr(p)
                           /\ item[p] = i
                           /\ Count(item_usage', i) = Count(item_usage, i) + 1
       \/ \E p \in Procs : ResetHSet(p) /\ Count(item_usage', i) = 0
       \/ Startup

\* C13: a call that finds a head item under the limit changes only that
\* item's count, by +1, and the snapshot; and over every step a count changes
\* only by +1 on the item being returned, to 0 in a full reset, or by the seed.
C13_PlainAllocationFrame ==
    /\ [](\A p \in Procs : PlainCallFrame(p))
    /\ [][\A i \in ItemsU : LedgerStep(i)]_vars

\* a call on [A, B] with limit 2 has returned (A, 2) leaving the pool whole
C13_Witness ==
    \E p \in Procs :
        /\ pc[p] = "done"
        /\ atStart.owner = p
        /\ atStart.pool = <<"A", "B">>
        /\ limit = 2
        /\ Count(atStart.ledger, "A") = 1
        /\ outcome[p].usage = 2
        /\ item_usage = [i \in {"A", "B"} |-> IF i = "A" THEN 2 ELSE 0]

\* the number of positions of list s that hold item i
Occurrences(s, i) == Cardinality({k \in 1..Len(s) : s[k] = i})

\* C14: in a run of non-overlapping calls from a startup without snapshot,
\* when a call finds the pool empty every item has been allocated, since the
\* startup or the last full reset, Usage Limit times for each of its
\* occurrences in the canonical list.
C14_DuplicatesIndependent ==
    \A p \in Procs :
        (bootSnap = "absent" /\ LinksOK /\ pc[p] = "reset_delete")
        => \A i \in Range(links.lines) :
              Count(item_usage, i) = Occurrences(links.lines, i) * limit

\* the same, for lists without duplicates
C14_DistinctLists ==
    \A p \in Procs :
        (bootSnap = "absent" /\ LinksOK /\ Distinct(links.lines)
            /\ pc[p] = "reset_delete")
        => \A i \in Range(links.lines) :
              Count(item_usage, i) = Occurrences(links.lines, i) * limit

\* whether list s is what is left of list t after some pops from its head
IsSuffix(s, t) ==
    Len(s) <= Len(t) /\ s = SubSeq(t, Len(t) - Len(s) + 1, Len(t))

\* C15: the pool is always a suffix of the canonical list, also when two
\* invocations both find it empty and both run the full reset.
C15_PoolShape == LinksOK => IsSuffix(items, links.lines)

\* C16: when no invocation is in progress and one has succeeded since the
\* startup, the snapshot file holds the whole current ledger.
C16_SnapshotTracksLedger ==
    (/\ phase = "serving"
     /\ bootSnap = "absent"
     /\ \A p \in Procs : ~InCall(p)
     /\ \E p \in Procs : pc[p] = "done")
    => (snapshot.kind = "json" /\ snapshot.data = HGetAll(item_usage))

====
